---- MODULE Spec2Model ----
(***************************************************************************)
(* Index management of braindecode's concatenated windows datasets        *)
(* (datasets/base.py, datasets/datasets.py) and the provenance mailbox    *)
(* between ThrowAwayIndexLoader and EEGClassifier.on_batch_end            *)
(* (classifier.py).                                                        *)
(*                                                                         *)
(* Python values are kept as they are in the code: indices are 0-based,   *)
(* an optional argument is the empty set (None) or a singleton set, an    *)
(* exception is the name of its class in the variable exc ("" when the    *)
(* call returned).                                                         *)
(***************************************************************************)
EXTENDS Integers, Sequences, FiniteSets, TLC

VARIABLES kind, sizes, infoIndex, infoSession, infoSubject,
          call, exc, splits, item,
          callbacksIsNone, callbacks, slot, iter, cur, emitted, hooked, nb,
          hookExc, predict

dsVars == <<kind, sizes, infoIndex, infoSession, infoSubject>>
callVars == <<call, exc, splits, item>>
trVars == <<callbacksIsNone, callbacks, slot, iter, cur, emitted, hooked, nb,
            hookExc, predict>>
vars == <<kind, sizes, infoIndex, infoSession, infoSubject,
          call, exc, splits, item,
          callbacksIsNone, callbacks, slot, iter, cur, emitted, hooked, nb,
          hookExc, predict>>

\* ------------------------------------------------------------------ bounds
MaxRec == 3        \* recordings (files) of a corpus
MaxSize == 2       \* windows of one recording
MaxRecIds == 2     \* recordings of a dataset split by explicit lists
MaxGroups == 2     \* lists in split_ids
MaxListLen == 2    \* recording indices in one list of split_ids
MaxCbs == 2        \* callbacks the user registered on the net
MaxBatches == 3    \* raw batches read from the iterators
MaxBatchSize == 2  \* batch_size of the data loader

Sessions == {"train", "eval"}
Subjects == {1, 2}
Fields == {"session", "subject", "absent"}

None == {}
Some(x) == {x}
TheOne(s) == CHOOSE x \in s : TRUE

\* ------------------------------------------------------- Python primitives
\* s[i] of a Python list / numpy array of length Len(s): negative i counts
\* from the end, anything outside [-len, len) raises IndexError.
PyInRange(n, i) == i >= -n /\ i < n
PyNorm(n, i) == IF i < 0 THEN n + i ELSE i
At0(s, i) == s[PyNorm(Len(s), i) + 1]

RECURSIVE SeqSum(_)
SeqSum(s) == IF s = <<>> THEN 0 ELSE s[1] + SeqSum(Tail(s))

RECURSIVE Flatten(_)
Flatten(ss) == IF ss = <<>> THEN <<>> ELSE ss[1] \o Flatten(Tail(ss))

\* list(range(a, b))
Range(a, b) == [i \in 1..(IF b > a THEN b - a ELSE 0) |-> a + i - 1]

\* ConcatDataset.cumsum: running sum of the datasets' lengths
RECURSIVE cumsumFrom(_, _)
cumsumFrom(s, acc) ==
    IF s = <<>> THEN <<>>
    ELSE <<acc + s[1]>> \o cumsumFrom(Tail(s), acc + s[1])
cumsum(s) == cumsumFrom(s, 0)

cumulative_sizes == cumsum(sizes)
total == SeqSum(sizes)

\* bisect.bisect_right(a, x): lo = 0, hi = len(a); halve while lo < hi
RECURSIVE bisect_loop(_, _, _, _)
bisect_loop(a, x, lo, hi) ==
    IF lo < hi
    THEN LET mid == (lo + hi) \div 2
         IN IF x < a[mid + 1] THEN bisect_loop(a, x, lo, mid)
            ELSE bisect_loop(a, x, mid + 1, hi)
    ELSE lo
\* mutant: bisect_left, which stops in front of an equal entry
RECURSIVE bisect_left_loop(_, _, _, _)
bisect_left_loop(a, x, lo, hi) ==
    IF lo < hi
    THEN LET mid == (lo + hi) \div 2
         IN IF x <= a[mid + 1] THEN bisect_left_loop(a, x, lo, mid)
            ELSE bisect_left_loop(a, x, mid + 1, hi)
    ELSE lo
bisect_left(a, x) == bisect_left_loop(a, x, 0, Len(a))
bisect_right(a, x) == bisect_loop(a, x, 0, Len(a))

\* ------------------------------------------------------------ the datasets
\* The window a WindowsDataset holds at a position: the signal of
\* windows[index], the label target[index] and the metadata row iloc[index].
Window(k, j) == [rec |-> k, signal |-> j, label |-> j, prov |-> j]

\* WindowsDataset.__getitem__(index) of recording k (0-based).  The three
\* lookups (metadata.iloc, windows[...], target[...]) are positional with
\* Python semantics.
WindowsGetExc(k, j) ==
    IF PyInRange(sizes[k + 1], j) THEN "" ELSE "IndexError"
WindowsGetItem(k, j) ==
    LET n == sizes[k + 1] IN
    [rec |-> k, signal |-> PyNorm(n, j), label |-> PyNorm(n, j),
     prov |-> PyNorm(n, j)]

\* ConcatDataset.__getitem__(idx), inherited by MOABBDataset and TUHAbnormal
ConcatNormIdx(idx) == IF idx < 0 THEN total + idx ELSE idx
ConcatDatasetIdx(idx) == bisect_right(cumulative_sizes, ConcatNormIdx(idx))
ConcatSampleIdx(idx) ==
    LET d == ConcatDatasetIdx(idx) IN
    IF d = 0 THEN ConcatNormIdx(idx)
    ELSE ConcatNormIdx(idx) - cumulative_sizes[d]
ConcatGetExc(idx) ==
    IF idx < 0 /\ -idx > total THEN "ValueError"
    ELSE IF ConcatDatasetIdx(idx) >= Len(sizes) THEN "IndexError"
    ELSE WindowsGetExc(ConcatDatasetIdx(idx), ConcatSampleIdx(idx))
ConcatGetItem(idx) ==
    WindowsGetItem(ConcatDatasetIdx(idx), ConcatSampleIdx(idx))

\* --------------------------------------------------------------- the split
\* The info DataFrame: one row per recording; infoIndex holds the row labels
\* (df.index), infoSession and infoSubject two of its columns.
Columns == {"session", "subject"}
Column(f) == IF f = "session" THEN infoSession ELSE infoSubject

\* The values of a column in the order df.groupby iterates its groups
\* (sorted keys).
SortedValues(f) ==
    IF f = "session" THEN <<"eval", "train">>
    ELSE [i \in 1..(MaxRec + 2) |-> i - 1]

\* list(group.index): the labels of the rows whose column holds v, in row
\* order
RECURSIVE GroupIndex(_, _, _)
GroupIndex(col, v, r) ==
    IF r > Len(col) THEN <<>>
    ELSE (IF col[r] = v THEN <<infoIndex[r]>> ELSE <<>>)
         \o GroupIndex(col, v, r + 1)

\* _split_ids(df, some_property): asserts the column exists, then one entry
\* per group of df.groupby(some_property)
_split_ids_exc(some_property) ==
    IF some_property = None \/ ~(TheOne(some_property) \in Columns)
    THEN "AssertionError" ELSE ""
RECURSIVE _split_ids_from(_, _, _)
_split_ids_from(col, vals, i) ==
    IF i > Len(vals) THEN <<>>
    ELSE (IF \E r \in 1..Len(col) : col[r] = vals[i]
          THEN <<[name |-> vals[i], ws |-> GroupIndex(col, vals[i], 1)]>>
          ELSE <<>>)
         \o _split_ids_from(col, vals, i + 1)
_split_ids(some_property) ==
    LET f == TheOne(some_property)
    IN _split_ids_from(Column(f), SortedValues(f), 1)

\* {split_i: split for split_i, split in enumerate(split_ids)}
EnumerateIds(ids) == [p \in 1..Len(ids) |-> [name |-> p - 1, ws |-> ids[p]]]

\* _supercrop_ids_of_windows(cumulative_sizes, windows_is):
\* i_stops = cumulative_sizes, i_starts = np.insert(cumulative_sizes[:-1],
\* 0, [0]); one range per listed recording; np.concatenate of the ranges.
i_starts(cs) == <<0>> \o SubSeq(cs, 1, Len(cs) - 1)
i_stops(cs) == cs
i_per_window(cs, windows_is) ==
    [q \in 1..Len(windows_is) |->
        Range(At0(i_starts(cs), windows_is[q]), At0(i_stops(cs), windows_is[q]))]
_supercrop_ids_exc(cs, windows_is) ==
    IF \E q \in 1..Len(windows_is) : ~PyInRange(Len(cs), windows_is[q])
    THEN "IndexError"
    ELSE IF windows_is = <<>> THEN "ValueError"   \* np.concatenate([])
    ELSE ""
_supercrop_ids_of_windows(cs, windows_is) ==
    Flatten(i_per_window(cs, windows_is))
\* np.concatenate gives a float64 array as soon as one of the lists is empty
supercrop_ids_float(cs, windows_is) ==
    \E q \in 1..Len(windows_is) : i_per_window(cs, windows_is)[q] = <<>>

\* _windows_dataset_ids_to_supercrop_ids(dataset_ids, cumulative_sizes): the
\* groups in dict order; the first failing group ends the call.
RECURSIVE FirstExc(_, _, _)
FirstExc(cs, dataset_ids, p) ==
    IF p > Len(dataset_ids) THEN ""
    ELSE IF _supercrop_ids_exc(cs, dataset_ids[p].ws) # ""
         THEN _supercrop_ids_exc(cs, dataset_ids[p].ws)
         ELSE FirstExc(cs, dataset_ids, p + 1)
_windows_dataset_ids_to_supercrop_ids_exc(dataset_ids, cs) ==
    FirstExc(cs, dataset_ids, 1)
_windows_dataset_ids_to_supercrop_ids(dataset_ids, cs) ==
    [p \in 1..Len(dataset_ids) |->
        [name |-> dataset_ids[p].name,
         ids |-> _supercrop_ids_of_windows(cs, dataset_ids[p].ws),
         isFloat |-> supercrop_ids_float(cs, dataset_ids[p].ws)]]

\* MOABBDataset.split / TUHAbnormal.split (the same body)
split_ids_of(some_property, split_ids) ==
    IF split_ids = None THEN _split_ids(some_property)
    ELSE EnumerateIds(TheOne(split_ids))
\* mutant: the leading assert of split is missing
split_exc_noassert(some_property, split_ids) ==
    IF split_ids = None /\ _split_ids_exc(some_property) # ""
    THEN _split_ids_exc(some_property)
    ELSE _windows_dataset_ids_to_supercrop_ids_exc(
             split_ids_of(some_property, split_ids), cumulative_sizes)
split_exc(some_property, split_ids) ==
    IF split_ids # None /\ some_property # None THEN "AssertionError"
    ELSE IF split_ids = None /\ _split_ids_exc(some_property) # ""
         THEN _split_ids_exc(some_property)
    ELSE _windows_dataset_ids_to_supercrop_ids_exc(
             split_ids_of(some_property, split_ids), cumulative_sizes)
split(some_property, split_ids) ==
    _windows_dataset_ids_to_supercrop_ids(
        split_ids_of(some_property, split_ids), cumulative_sizes)

\* Subset.__getitem__(idx): self.dataset[self.indices[idx]].  A float64
\* index reaches metadata.iloc, which refuses it.
SubsetGetExc(view, idx) ==
    IF ~PyInRange(Len(view.ids), idx) THEN "IndexError"
    ELSE IF ConcatGetExc(At0(view.ids, idx)) # ""
         THEN ConcatGetExc(At0(view.ids, idx))
    ELSE IF view.isFloat THEN "TypeError"
    ELSE ""
SubsetGetItem(view, idx) == ConcatGetItem(At0(view.ids, idx))

\* ------------------------------------------------------------ construction
Idle == [op |-> "idle", some_property |-> None, split_ids |-> None,
         idx |-> 0, p |-> 0]

NonDecreasing(s) == \A i \in 1..(Len(s) - 1) : s[i] <= s[i + 1]
Injective(s) == \A i, j \in 1..Len(s) : i # j => s[i] # s[j]
\* subject_ids of TUHAbnormal: positions in the sorted list of files
SubjectIdChoices(n) ==
    {s \in UNION {[1..m -> 0..(n - 1)] : m \in 1..n} : Injective(s)}

\* MOABBDataset.__init__: one WindowsDataset per fetched raw, info is the
\* DataFrame of _fetch_and_unpack_moabb_data (default RangeIndex, recordings
\* listed subject by subject).
InitMOABB(fsize, fsession) ==
    /\ kind = "MOABB"
    /\ sizes = fsize
    /\ infoIndex = [r \in 1..Len(fsize) |-> r - 1]
    /\ infoSession = fsession
    /\ infoSubject \in {s \in [1..Len(fsize) -> Subjects] : NonDecreasing(s)}

\* TUHAbnormal.__init__: one WindowsDataset per subject_id (all files when
\* subject_ids is None); each info row is labelled index=[subject_id] and
\* holds subject_id in its subject column.
InitTUH(fsize, fsession, subject_ids) ==
    LET sel == IF subject_ids = None
               THEN [r \in 1..Len(fsize) |-> r - 1]   \* np.arange
               ELSE TheOne(subject_ids)
    IN /\ kind = "TUH"
       /\ sizes = [r \in 1..Len(sel) |-> fsize[sel[r] + 1]]
       /\ infoIndex = sel
       /\ infoSession = [r \in 1..Len(sel) |-> fsession[sel[r] + 1]]
       /\ infoSubject = sel

InitCall ==
    /\ call = Idle
    /\ exc = ""
    /\ splits = <<>>
    /\ item = <<>>

\* the corpus: n files, file r with MaxSize - short[r] windows
InitDataset(maxRec) ==
    \E n \in 1..maxRec :
      \E short \in [1..n -> 0..MaxSize], fsession \in [1..n -> Sessions] :
        LET fsize == [r \in 1..n |-> MaxSize - short[r]] IN
        \/ InitMOABB(fsize, fsession)
        \/ \E subject_ids \in {None} \cup {Some(s) : s \in SubjectIdChoices(n)} :
              InitTUH(fsize, fsession, subject_ids)

\* -------------------------------------------------------------- operations
\* dataset.split(some_property, split_ids)
Split(props, idss) ==
    /\ call.op = "idle"
    /\ \E some_property \in props, split_ids \in idss :
         /\ call' = [Idle EXCEPT !.op = "split",
                                 !.some_property = some_property,
                                 !.split_ids = split_ids]
         /\ exc' = split_exc(some_property, split_ids)
         /\ splits' = IF split_exc(some_property, split_ids) = ""
                      THEN split(some_property, split_ids) ELSE <<>>
    /\ item' = <<>>
    /\ UNCHANGED <<dsVars, trVars>>

\* dataset[g]
GetItem ==
    /\ call.op = "idle"
    /\ \E g \in (-(total + 2))..(total + 1) :
         /\ call' = [Idle EXCEPT !.op = "get", !.idx = g]
         /\ exc' = ConcatGetExc(g)
         /\ item' = IF ConcatGetExc(g) = "" THEN <<ConcatGetItem(g)>> ELSE <<>>
    /\ splits' = <<>>
    /\ UNCHANGED <<dsVars, trVars>>

\* dataset.datasets[k][j]
WindowsGet ==
    /\ call.op = "idle"
    /\ \E k \in 0..(Len(sizes) - 1) :
         \E j \in (-(sizes[k + 1] + 1))..(sizes[k + 1] + 1) :
           /\ call' = [Idle EXCEPT !.op = "wget", !.p = k, !.idx = j]
           /\ exc' = WindowsGetExc(k, j)
           /\ item' = IF WindowsGetExc(k, j) = ""
                      THEN <<WindowsGetItem(k, j)>> ELSE <<>>
    /\ splits' = <<>>
    /\ UNCHANGED <<dsVars, trVars>>

\* splits[name][i] on a view a split returned
SubsetGet ==
    /\ call.op = "split"
    /\ exc = ""
    /\ \E p \in 1..Len(splits) :
         \E i \in (-(Len(splits[p].ids) + 1))..Len(splits[p].ids) :
           /\ call' = [call EXCEPT !.op = "subset", !.p = p - 1, !.idx = i]
           /\ exc' = SubsetGetExc(splits[p], i)
           /\ item' = IF SubsetGetExc(splits[p], i) = ""
                      THEN <<SubsetGetItem(splits[p], i)>> ELSE <<>>
    /\ UNCHANGED <<splits, dsVars, trVars>>

\* the caller drops what the last call returned
Return ==
    /\ call.op # "idle"
    /\ call' = Idle
    /\ exc' = ""
    /\ splits' = <<>>
    /\ item' = <<>>
    /\ UNCHANGED <<dsVars, trVars>>

\* the arguments of the calls
PropertyChoices == {None} \cup {Some(f) : f \in Fields}
ListChoices(n) ==
    UNION {[1..m -> (-(n + 1))..n] : m \in 0..MaxListLen}
IdsChoices(n) ==
    UNION {[1..m -> ListChoices(n)] : m \in 0..MaxGroups}
FewIdsChoices == {Some(<<>>), Some(<<<<0>>>>), Some(<<<<0>>, <<>>>>)}

\* ------------------------------------------------------------- the trainer
\* EEGClassifier: callbacks (None unless the user passes some), the
\* attribute _last_supercrop_inds (slot: <<>> while the attribute does not
\* exist), the iterator get_iterator returned last, the raw batch read last
\* (cur) with the training flag of its iterator, the batch yielded last
\* (emitted), whether on_batch_end ran for cur, and the number of raw batches
\* read so far, which also serves as the identity of a batch's x, y and i.
CbKinds ==
    [cls : {"CroppedTrialEpochScoring", "EpochScoring"},
     has_supercrop_inds_ : BOOLEAN, on_train : BOOLEAN, supercrop_inds_ : {<<>>}]

\* EEGClassifier._default_callbacks
_default_callbacks ==
    << [cls |-> "EpochTimer", has_supercrop_inds_ |-> FALSE,
        on_train |-> FALSE, supercrop_inds_ |-> <<>>],
       [cls |-> "BatchScoring", has_supercrop_inds_ |-> FALSE,
        on_train |-> TRUE, supercrop_inds_ |-> <<>>],
       [cls |-> "BatchScoring", has_supercrop_inds_ |-> FALSE,
        on_train |-> FALSE, supercrop_inds_ |-> <<>>],
       [cls |-> "PrintLog", has_supercrop_inds_ |-> FALSE,
        on_train |-> FALSE, supercrop_inds_ |-> <<>>] >>

NoIter == [active |-> FALSE, training |-> FALSE, drop_index |-> TRUE]

\* what predict_with_supercrop_inds_and_ys was called with (the order in
\* which the loader's sampler visits the dataset, its batch size) and what it
\* returned
NoPredict ==
    [called |-> FALSE, order |-> <<>>, batch_size |-> 0, exc |-> "",
     preds |-> <<>>, i_supercrop_in_trials |-> <<>>,
     i_supercrop_stops |-> <<>>, supercrop_ys |-> <<>>]

\* EEGClassifier(..., callbacks=...): maxCbs = 0 leaves the default None
InitTrainer(maxCbs) ==
    /\ callbacksIsNone \in (IF maxCbs = 0 THEN {TRUE} ELSE BOOLEAN)
    /\ callbacks \in
         IF callbacksIsNone THEN {<<>>}
         ELSE UNION {[1..m -> CbKinds] : m \in 0..maxCbs}
    /\ slot = <<>>
    /\ iter = NoIter
    /\ cur = <<>>
    /\ emitted = <<>>
    /\ hooked = FALSE
    /\ nb = 0
    /\ hookExc = ""
    /\ predict = NoPredict

\* a batch of the raw iterator: (x, y) or (x, y, i)
RawBatch(id, has3, isTensor) ==
    [x |-> [id |-> id, hasType |-> isTensor,
            dtype |-> IF isTensor THEN "float64" ELSE "object"],
     y |-> [id |-> id, hasType |-> isTensor,
            dtype |-> IF isTensor THEN "int32" ELSE "object"],
     i |-> IF has3 THEN <<id>> ELSE <<>>]
BatchLen(b) == 2 + Len(b.i)

\* x.type(dtype)
AsType(v, dtype) == [v EXCEPT !.dtype = dtype]

\* One round of ThrowAwayIndexLoader.__iter__: the value stored in
\* net._last_supercrop_inds and the pair yielded for a raw batch
\* mutant: the loader stores the provenance only into an empty slot
ThrowAwaySlot_nooverwrite(batch, old) ==
    IF BatchLen(batch) = 3 /\ old = <<>> THEN batch.i ELSE old
ThrowAwaySlot(batch, old) == IF BatchLen(batch) = 3 THEN batch.i ELSE old
\* mutant: the loader yields the raw batch with its third element
ThrowAwayYield_keep(batch) ==
    [x |-> IF batch.x.hasType THEN AsType(batch.x, "float32") ELSE batch.x,
     y |-> IF batch.x.hasType THEN AsType(batch.y, "int64") ELSE batch.y,
     i |-> batch.i]
ThrowAwayYield(batch) ==
    [x |-> IF batch.x.hasType THEN AsType(batch.x, "float32") ELSE batch.x,
     y |-> IF batch.x.hasType THEN AsType(batch.y, "int64") ELSE batch.y,
     i |-> <<>>]

\* EEGClassifier.get_iterator(dataset, training, drop_index)
GetIterator ==
    /\ nb < MaxBatches
    /\ \E training \in BOOLEAN, drop_index \in BOOLEAN :
         iter' = [active |-> TRUE, training |-> training,
                  drop_index |-> drop_index]
    /\ UNCHANGED <<callbacksIsNone, callbacks, slot, cur, emitted, hooked, nb,
                   hookExc>>
    /\ UNCHANGED <<dsVars, callVars, predict>>

\* next(iterator): the wrapped loader when drop_index, the raw one otherwise
LoaderNext ==
    /\ iter.active
    /\ nb < MaxBatches
    /\ \E has3 \in BOOLEAN, isTensor \in BOOLEAN :
         LET batch == RawBatch(nb + 1, has3, isTensor) IN
         /\ cur' = <<[batch |-> batch, training |-> iter.training]>>
         /\ slot' = IF iter.drop_index THEN ThrowAwaySlot(batch, slot) ELSE slot
         /\ emitted' = IF iter.drop_index THEN <<ThrowAwayYield(batch)>>
                       ELSE <<batch>>
    /\ nb' = nb + 1
    /\ hooked' = FALSE
    /\ hookExc' = ""
    /\ UNCHANGED <<callbacksIsNone, callbacks, iter>>
    /\ UNCHANGED <<dsVars, callVars, predict>>

\* the raw iterator is exhausted
LoaderStop ==
    /\ iter.active
    /\ iter' = NoIter
    /\ UNCHANGED <<callbacksIsNone, callbacks, slot, cur, emitted, hooked, nb,
                   hookExc>>
    /\ UNCHANGED <<dsVars, callVars, predict>>

\* EEGClassifier.on_batch_end(net, X, y, training)
Qualifies(cb) ==
    /\ cb.cls = "CroppedTrialEpochScoring"
    /\ cb.has_supercrop_inds_
    /\ cb.on_train = FALSE
cbs == _default_callbacks \o callbacks
epoch_cbs == {c \in 1..Len(cbs) : Qualifies(cbs[c])}
\* mutant: without the assert the missing attribute is an AttributeError
on_batch_end_exc_noassert(training) ==
    IF training THEN ""
    ELSE IF callbacksIsNone THEN "TypeError"
    ELSE IF epoch_cbs # {} /\ slot = <<>> THEN "AttributeError"
    ELSE ""
on_batch_end_exc(training) ==
    IF training THEN ""
    ELSE IF callbacksIsNone THEN "TypeError"     \* list + None
    ELSE IF epoch_cbs # {} /\ slot = <<>> THEN "AssertionError"
    ELSE ""
on_batch_end_callbacks(training) ==
    IF training \/ on_batch_end_exc(training) # "" \/ epoch_cbs = {}
    THEN callbacks
    ELSE [c \in 1..Len(callbacks) |->
            IF Qualifies(callbacks[c])
            THEN [callbacks[c] EXCEPT
                    !.supercrop_inds_ = Append(@, slot[1])]
            ELSE callbacks[c]]
\* mutant: the del of _last_supercrop_inds is missing
on_batch_end_slot_keep(training) == slot
on_batch_end_slot(training) ==
    IF training \/ on_batch_end_exc(training) # "" \/ epoch_cbs = {}
    THEN slot
    ELSE <<>>                                     \* del
OnBatchEnd ==
    /\ cur # <<>>
    /\ ~hooked
    /\ hooked' = TRUE
    /\ hookExc' = on_batch_end_exc(cur[1].training)
    /\ callbacks' = on_batch_end_callbacks(cur[1].training)
    /\ slot' = on_batch_end_slot(cur[1].training)
    /\ UNCHANGED <<callbacksIsNone, iter, cur, emitted, nb>>
    /\ UNCHANGED <<dsVars, callVars, predict>>

\* ----------------------------------------------------------- the predictor
\* The loader behind get_iterator(dataset, drop_index=False): the sampler
\* visits every index of the dataset once, in index order unless the loader
\* is configured to shuffle; the visited indices are cut into batches of
\* batch_size and each batch is collated column by column.
RECURSIVE Perms(_)
Perms(S) ==
    IF S = {} THEN {<<>>}
    ELSE UNION {{<<g>> \o q : q \in Perms(S \ {g})} : g \in S}
SamplerOrders(shuffle) ==
    IF shuffle THEN Perms(0..(total - 1)) ELSE {[t \in 1..total |-> t - 1]}
RECURSIVE Chunks(_, _)
Chunks(order, bs) ==
    IF order = <<>> THEN <<>>
    ELSE IF Len(order) <= bs THEN <<order>>
    ELSE <<SubSeq(order, 1, bs)>> \o Chunks(SubSeq(order, bs + 1, Len(order)), bs)

\* keys of WindowsDataset.__getitem__ and the cell of a metadata row
keys == <<"i_supercrop_in_trial", "i_start_in_trial", "i_stop_in_trial">>
InfoList(w) ==
    [c \in 1..3 |-> [key |-> keys[c], rec |-> w.rec, row |-> w.prov]]
\* the batch (X, y, i) of the dataset items at the indices of a chunk; i is
\* the list of the three columns
Collate(chunk) ==
    [X |-> [q \in 1..Len(chunk) |->
              [rec |-> ConcatGetItem(chunk[q]).rec,
               signal |-> ConcatGetItem(chunk[q]).signal]],
     y |-> [q \in 1..Len(chunk) |->
              [rec |-> ConcatGetItem(chunk[q]).rec,
               label |-> ConcatGetItem(chunk[q]).label]],
     i |-> [c \in 1..3 |->
              [q \in 1..Len(chunk) |-> InfoList(ConcatGetItem(chunk[q]))[c]]]]
\* self.predict_proba(X): one row of probabilities per row of X
predict_proba(X) == [q \in 1..Len(X) |-> [proba_of |-> X[q]]]

\* EEGClassifier.predict_with_supercrop_inds_and_ys(dataset): the four lists
\* of per-batch arrays, then np.concatenate of each (which raises on an
\* empty list)
PredictBatches(order, bs) ==
    [b \in 1..Len(Chunks(order, bs)) |-> Collate(Chunks(order, bs)[b])]
predict_exc(batches) == IF batches = <<>> THEN "ValueError" ELSE ""
predict_result(batches) ==
    [preds |-> Flatten([b \in 1..Len(batches) |-> predict_proba(batches[b].X)]),
     i_supercrop_in_trials |->
        Flatten([b \in 1..Len(batches) |-> At0(batches[b].i, 0)]),
     i_supercrop_stops |->
        Flatten([b \in 1..Len(batches) |-> At0(batches[b].i, 2)]),
     supercrop_ys |-> Flatten([b \in 1..Len(batches) |-> batches[b].y])]
Predict ==
    /\ ~predict.called
    /\ \E shuffle \in BOOLEAN, bs \in 1..MaxBatchSize :
         \E order \in SamplerOrders(shuffle) :
           LET batches == PredictBatches(order, bs)
               res == predict_result(batches)
           IN predict' =
                IF predict_exc(batches) # ""
                THEN [NoPredict EXCEPT !.called = TRUE, !.order = order,
                                       !.batch_size = bs,
                                       !.exc = predict_exc(batches)]
                ELSE [called |-> TRUE, order |-> order, batch_size |-> bs,
                      exc |-> "", preds |-> res.preds,
                      i_supercrop_in_trials |-> res.i_supercrop_in_trials,
                      i_supercrop_stops |-> res.i_supercrop_stops,
                      supercrop_ys |-> res.supercrop_ys]
    /\ UNCHANGED <<callbacksIsNone, callbacks, slot, iter, cur, emitted,
                   hooked, nb, hookExc>>
    /\ UNCHANGED <<dsVars, callVars>>

\* the caller drops what predict_with_supercrop_inds_and_ys returned
PredictReturn ==
    /\ predict.called
    /\ predict' = NoPredict
    /\ UNCHANGED <<callbacksIsNone, callbacks, slot, iter, cur, emitted,
                   hooked, nb, hookExc>>
    /\ UNCHANGED <<dsVars, callVars>>

Init == InitDataset(MaxRec) /\ InitCall /\ InitTrainer(0)
Next ==
    \/ Split(PropertyChoices, {None} \cup FewIdsChoices)
    \/ WindowsGet
    \/ GetItem
    \/ SubsetGet
    \/ Return
Spec == Init /\ [][Next]_vars

\* explicit recording-index lists on datasets of up to MaxRecIds recordings
InitIds ==
    /\ \E n \in 1..MaxRecIds :
         \E short \in [1..n -> 0..MaxSize] :
           InitMOABB([r \in 1..n |-> MaxSize - short[r]],
                     [r \in 1..n |-> "train"])
    /\ InitCall
    /\ InitTrainer(0)
NextIds ==
    \/ Split({None}, {Some(ids) : ids \in IdsChoices(Len(sizes))})
    \/ SubsetGet
    \/ Return
SpecIds == InitIds /\ [][NextIds]_vars

\* the trainer over one fixed dataset
InitTrain ==
    /\ kind = "MOABB"
    /\ sizes = <<MaxSize>>
    /\ infoIndex = <<0>>
    /\ infoSession = <<"train">>
    /\ infoSubject = <<1>>
    /\ InitCall
    /\ InitTrainer(MaxCbs)
NextTrain ==
    \/ GetIterator
    \/ LoaderNext
    \/ LoaderStop
    \/ OnBatchEnd
SpecTrain == InitTrain /\ [][NextTrain]_vars

\* the predictor over datasets of up to MaxRecIds recordings
InitPredict ==
    /\ InitDataset(MaxRecIds)
    /\ InitCall
    /\ InitTrainer(0)
NextPredict ==
    \/ Predict
    \/ PredictReturn
SpecPredict == InitPredict /\ [][NextPredict]_vars

\* ================================================================== claims
\* What the statements below compare the results with: the windows in front
\* of recording k, the global indices of recording k, the recording a global
\* index falls into.
RECURSIVE WindowsBefore(_)
WindowsBefore(k) == IF k = 0 THEN 0 ELSE WindowsBefore(k - 1) + sizes[k]
GlobalRange(k) == [t \in 1..sizes[k + 1] |-> WindowsBefore(k) + t - 1]
RECURSIVE ConcatRanges(_)
ConcatRanges(ws) ==
    IF ws = <<>> THEN <<>> ELSE GlobalRange(ws[1]) \o ConcatRanges(Tail(ws))
Holds(k, g) == WindowsBefore(k) <= g /\ g < WindowsBefore(k) + sizes[k + 1]
RecordingOf(g) == CHOOSE k \in 0..(Len(sizes) - 1) : Holds(k, g)
SeqSet(q) == {q[t] : t \in 1..Len(q)}
ValidRecording(i) == 0 <= i /\ i < Len(sizes)

SplitByProperty ==
    /\ call.op = "split"
    /\ call.split_ids = None
    /\ call.some_property # None
SplitByLists ==
    /\ call.op \in {"split", "subset"}
    /\ call.split_ids # None
    /\ call.some_property = None
TheLists == TheOne(call.split_ids)
AllListsValid ==
    \A p \in 1..Len(TheLists) :
      \A q \in 1..Len(TheLists[p]) : ValidRecording(TheLists[p][q])

\* C1: split(some_property=field), for a field of the info table, returns
\* index sets that are pairwise disjoint and whose union is [0, total): every
\* window belongs to exactly one split.
C1_PropertySplitPartitions ==
    (SplitByProperty /\ TheOne(call.some_property) \in Columns) =>
      /\ exc = ""
      /\ \A p \in 1..Len(splits) : SeqSet(splits[p].ids) \subseteq 0..(total - 1)
      /\ \A g \in 0..(total - 1) :
           Cardinality({<<p, t>> \in (1..Len(splits)) \X (1..total) :
                          t <= Len(splits[p].ids) /\ splits[p].ids[t] = g}) = 1

\* C2: split(split_ids=[L0, L1, ...]) with valid recording indices returns,
\* at position p, the ranges of the recordings of Lp concatenated in the
\* listed order; the view's length is the sum of their sizes and element i of
\* the view is the window at the i-th collected global index.
C2_ListSplitConcatenatesRanges ==
    (SplitByLists /\ AllListsValid) =>
      /\ call.op = "split" =>
           /\ exc = ""
           /\ Len(splits) = Len(TheLists)
           /\ \A p \in 1..Len(TheLists) :
                /\ splits[p].name = p - 1
                /\ splits[p].ids = ConcatRanges(TheLists[p])
                /\ Len(splits[p].ids) =
                     SeqSum([q \in 1..Len(TheLists[p]) |->
                               sizes[TheLists[p][q] + 1]])
      /\ (call.op = "subset" /\ 0 <= call.idx
            /\ call.idx < Len(splits[call.p + 1].ids)) =>
           LET g == ConcatRanges(TheLists[call.p + 1])[call.idx + 1]
           IN /\ exc = ""
              /\ item = <<Window(RecordingOf(g), g - WindowsBefore(RecordingOf(g)))>>

\* C3: split succeeds only when exactly one of some_property and split_ids
\* is non-null; with both non-null and with both null it fails with the
\* configuration (assertion) error and returns no views.
C3_SplitNeedsExactlyOneArgument ==
    call.op = "split" =>
      /\ exc = "" => ((call.some_property = None) # (call.split_ids = None))
      /\ ((call.some_property = None) = (call.split_ids = None)) =>
           (exc = "AssertionError" /\ splits = <<>>)
C3_Witness ==
    /\ call.op = "split"
    /\ call.some_property = None
    /\ call.split_ids = None
    /\ exc = "AssertionError"

\* C4: in split with explicit lists a group of zero recordings yields an
\* empty view for that group and no error; the other groups are returned.
C4_EmptyGroupYieldsEmptyView ==
    (SplitByLists /\ call.op = "split" /\ AllListsValid
       /\ \E p \in 1..Len(TheLists) : TheLists[p] = <<>>) =>
      /\ exc = ""
      /\ Len(splits) = Len(TheLists)
      /\ \A p \in 1..Len(TheLists) :
           TheLists[p] = <<>> => splits[p].ids = <<>>

\* C5: every global index g in [0, total) resolves to exactly one (k, local)
\* with cumulative_sizes[k-1] <= g < cumulative_sizes[k] and local =
\* g - cumulative_sizes[k-1]; cumulative_sizes[k-1] + local is g again, and
\* get(g) returns the window of the k-th WindowsDataset at local unchanged.
C5_ResolveRoundTrip ==
    (call.op = "get" /\ 0 <= call.idx /\ call.idx < total) =>
      LET g == call.idx
          k == ConcatDatasetIdx(g)
          local == ConcatSampleIdx(g)
      IN /\ exc = ""
         /\ Cardinality({r \in 0..(Len(sizes) - 1) : Holds(r, g)}) = 1
         /\ ValidRecording(k) /\ Holds(k, g)
         /\ local = g - WindowsBefore(k)
         /\ WindowsBefore(k) + local = g
         /\ item = <<Window(k, local)>>
C5_Witness ==
    /\ call.op = "get"
    /\ exc = ""
    /\ Len(sizes) = 3
    /\ sizes[2] = 0
    /\ call.idx = WindowsBefore(2)
    /\ item = <<Window(2, 0)>>

\* C6: get with an index outside the valid range fails with an index error
\* and returns no window, for WindowsDataset (j < 0 or j >= len) and for the
\* concatenated dataset (g < 0 or g >= total); no wraparound, no clamping.
C6_OutOfRangeGetFails ==
    /\ (call.op = "wget" /\ (call.idx < 0 \/ call.idx >= sizes[call.p + 1])) =>
         (exc = "IndexError" /\ item = <<>>)
    /\ (call.op = "get" /\ (call.idx < 0 \/ call.idx >= total)) =>
         (exc = "IndexError" /\ item = <<>>)

\* steps of the trainer
Emits == nb' = nb + 1                   \* the iterator yields a batch
HookRuns == ~hooked /\ hooked'          \* on_batch_end is called for cur

\* C7 (as stated): with drop_index=True the iterator of get_iterator emits
\* only (input, target) pairs; with drop_index=False every emitted batch has
\* three elements, the third being the provenance of the raw batch.
C7_DropIndexFalseAlwaysEmitsTriples ==
    [][Emits =>
         /\ iter.drop_index => BatchLen(emitted'[1]) = 2
         /\ ~iter.drop_index =>
              /\ BatchLen(emitted'[1]) = 3
              /\ emitted'[1].i = cur'[1].batch.i]_vars

\* C7 (amended): with drop_index=True the iterator emits only (input,
\* target) pairs, made of the raw batch's input and target; with
\* drop_index=False it emits the raw batch itself, so three elements exactly
\* when the raw batch has three, the third being the raw provenance.
C7_DropIndexEmitsPairsElseRawBatch ==
    [][Emits =>
         /\ iter.drop_index =>
              /\ BatchLen(emitted'[1]) = 2
              /\ emitted'[1].x.id = cur'[1].batch.x.id
              /\ emitted'[1].y.id = cur'[1].batch.y.id
         /\ ~iter.drop_index => emitted'[1] = cur'[1].batch]_vars
C7_Witness ==
    /\ iter.active
    /\ iter.drop_index
    /\ emitted # <<>>
    /\ cur # <<>>
    /\ BatchLen(cur[1].batch) = 3
    /\ BatchLen(emitted[1]) = 2
    /\ emitted[1].x.id = nb

\* C8: when on_batch_end runs for a non-training batch, a qualifying
\* (CroppedTrialEpochScoring, supercrop_inds_, on_train False) callback is
\* registered and _last_supercrop_inds is set, the pending value is appended
\* exactly once to the log of every qualifying callback and to no other, and
\* the slot is empty afterwards.
C8_HookDeliversPendingOnce ==
    [][(HookRuns /\ ~cur[1].training /\ slot # <<>>
          /\ \E c \in 1..Len(callbacks) : Qualifies(callbacks[c])) =>
         /\ hookExc' = ""
         /\ Len(callbacks') = Len(callbacks)
         /\ \A c \in 1..Len(callbacks) :
              callbacks'[c] =
                IF Qualifies(callbacks[c])
                THEN [callbacks[c] EXCEPT
                        !.supercrop_inds_ =
                           callbacks[c].supercrop_inds_ \o <<slot[1]>>]
                ELSE callbacks[c]
         /\ slot' = <<>>]_vars
C8_Witness ==
    /\ hooked
    /\ hookExc = ""
    /\ ~cur[1].training
    /\ slot = <<>>
    /\ Len(callbacks) = 2
    /\ Qualifies(callbacks[1]) /\ ~Qualifies(callbacks[2])
    /\ callbacks[1].supercrop_inds_ = <<nb>>
    /\ callbacks[2].supercrop_inds_ = <<>>

\* C9: when on_batch_end runs for a non-training batch with a qualifying
\* callback registered and the slot empty, it fails with the consistency
\* (assertion) error and appends nothing; for the raw stream
\* [(x0,y0,p0), (x1,y1)] the hook after batch 0 logs p0 and the hook after
\* batch 1 fails.
C9_HookFailsOnEmptySlot ==
    [][(HookRuns /\ ~cur[1].training /\ slot = <<>>
          /\ \E c \in 1..Len(callbacks) : Qualifies(callbacks[c])) =>
         /\ hookExc' = "AssertionError"
         /\ callbacks' = callbacks
         /\ slot' = <<>>]_vars
C9_Witness ==
    /\ nb = 2
    /\ hooked
    /\ hookExc = "AssertionError"
    /\ ~cur[1].training
    /\ BatchLen(cur[1].batch) = 2
    /\ slot = <<>>
    /\ Len(callbacks) = 1
    /\ Qualifies(callbacks[1])
    /\ callbacks[1].supercrop_inds_ = <<1>>

\* C10: over any interleaving of training batches, evaluation batches with
\* and without provenance and hooks, every value on_batch_end appends to a
\* log is the provenance element of the batch that hook completes; a stale or
\* overwritten stash makes the consistency check fail instead.
C10_HookDeliversOwnBatchProvenance ==
    [][HookRuns =>
         \A c \in 1..Len(callbacks) :
           callbacks'[c].supercrop_inds_ # callbacks[c].supercrop_inds_ =>
             /\ cur[1].batch.i # <<>>
             /\ callbacks'[c].supercrop_inds_ =
                  callbacks[c].supercrop_inds_ \o cur[1].batch.i]_vars

\* C13: while the wrapping loader iterates, when it emits the pair of a raw
\* batch of three elements the slot holds that batch's provenance whatever it
\* held before; a raw batch of two elements leaves the slot as it was; the
\* loader emits exactly one pair per raw batch, in the raw iterator's order.
C13_LoaderStashesOwnProvenance ==
    [][(Emits /\ iter.drop_index) =>
         LET batch == cur'[1].batch IN
         /\ batch.x.id = nb + 1
         /\ BatchLen(batch) = 3 => slot' = batch.i
         /\ BatchLen(batch) = 2 => slot' = slot
         /\ BatchLen(emitted'[1]) = 2
         /\ emitted'[1].x.id = batch.x.id
         /\ emitted'[1].y.id = batch.y.id]_vars
C13_Witness ==
    /\ iter.active
    /\ iter.drop_index
    /\ nb = MaxBatches
    /\ ~hooked
    /\ BatchLen(cur[1].batch) = 3
    /\ slot = <<nb>>
    /\ BatchLen(emitted[1]) = 2
    /\ emitted[1].y.id = nb

\* C14: on_batch_end changes nothing when it runs for a training batch or
\* when no registered callback qualifies: the slot keeps its value, every
\* log is unchanged and no error is raised, even if the slot is empty.
C14_HookWithoutConsumerIsNoOp ==
    [][(HookRuns /\ (cur[1].training
                       \/ ~\E c \in 1..Len(callbacks) : Qualifies(callbacks[c]))) =>
         /\ slot' = slot
         /\ callbacks' = callbacks
         /\ hookExc' = ""]_vars

\* C15: in split with explicit lists a recording index outside
\* [0, number of recordings), negative ones included, makes the call fail
\* with an index error; it never selects the windows of another recording.
C15_BadRecordingIndexFails ==
    (SplitByLists /\ call.op = "split" /\ ~AllListsValid) =>
      (exc = "IndexError" /\ splits = <<>>)

\* the window the sampler visits at position t of the pass
Visited(t) == ConcatGetItem(predict.order[t])
FromWindow(t, w) ==
    /\ predict.preds[t] = [proba_of |-> [rec |-> w.rec, signal |-> w.signal]]
    /\ predict.i_supercrop_in_trials[t] =
         [key |-> "i_supercrop_in_trial", rec |-> w.rec, row |-> w.prov]
    /\ predict.i_supercrop_stops[t] =
         [key |-> "i_stop_in_trial", rec |-> w.rec, row |-> w.prov]
    /\ predict.supercrop_ys[t] = [rec |-> w.rec, label |-> w.label]

\* C11: for every dataset predict_with_supercrop_inds_and_ys returns four
\* sequences of equal length, the dataset's total window count, whose i-th
\* elements are the prediction, window-in-trial index, stop index and target
\* of the same window, concatenated in batch order.
C11_PredictReturnsAlignedSequences ==
    predict.called =>
      /\ predict.exc = ""
      /\ Len(predict.preds) = total
      /\ Len(predict.i_supercrop_in_trials) = total
      /\ Len(predict.i_supercrop_stops) = total
      /\ Len(predict.supercrop_ys) = total
      /\ \A t \in 1..total : FromWindow(t, Visited(t))

\* C12: predict_with_supercrop_inds_and_ys fails (or warns) when the iterator
\* reorders the windows; when it returns, the output is in the dataset's flat
\* index order.
C12_PredictRejectsShuffling ==
    (predict.called /\ predict.exc = "") =>
      \A t \in 1..total :
        FromWindow(t, Window(RecordingOf(t - 1),
                             t - 1 - WindowsBefore(RecordingOf(t - 1))))

====
